---- MODULE Spec2Model ----
(***************************************************************************)
(* Llama-Swap Manager backend (src/main.py): the configuration store with  *)
(* backup-on-write, the command synthesizer, the activity log, the rolling *)
(* response-time window and the model download and upload endpoints.       *)
(*                                                                         *)
(* Every request handler of main.py is an `async def`; the event loop runs *)
(* a handler without interruption up to its next `await`.  A handler that  *)
(* holds no `await` is therefore one action; a handler or background task  *)
(* that awaits is one action per stretch between awaits.                   *)
(***************************************************************************)
EXTENDS Integers, Sequences, FiniteSets, TLC

VARIABLES
    now,            \* wall clock, whole seconds (datetime.now())
    config_file,    \* settings.config_path: <<>> when absent, <<lines>> when present
    backups,        \* data_dir/backups: backup file name -> lines
    activity_logs,  \* the activity_logs list
    logHist,        \* history: every entry appended since the last clear
    system_stats,   \* the system_stats dict (total_requests, response_times)
    okTimes,        \* history: elapsed time of every test call that returned 200
    models_dir,     \* settings.models_path: file name -> its opener and content
    downloads,      \* background download tasks, in the order they were added
    tests,          \* test_model calls suspended at an await
    uploads,        \* upload_model calls suspended at an await
    hist,           \* history: the config-mutating calls that reported success
    last,           \* the handler call that just returned, and its response
    model_in,       \* command synthesizer: the ModelConfig handed in
    cmd_out,        \* command synthesizer: <<>> or <<the command built>>
    calls           \* the number of state-changing steps taken so far

vars == <<now, config_file, backups, activity_logs, logHist, system_stats,
          okTimes, models_dir, downloads, tests, uploads, hist, last, model_in,
          cmd_out, calls>>

(***************************************************************************)
(* Optional values: None is <<>>, a present value v is <<v>>.              *)
(***************************************************************************)
None == <<>>

Some(v) == <<v>>

(***************************************************************************)
(* Python string operations used by main.py.                               *)
(***************************************************************************)
startswith(s, p) == Len(s) >= Len(p) /\ SubSeq(s, 1, Len(p)) = p

endswith(s, p) == Len(s) >= Len(p) /\ SubSeq(s, Len(s) - Len(p) + 1, Len(s)) = p

contains(s, p) ==
    \E i \in 1..(Len(s) - Len(p) + 1) : SubSeq(s, i, i + Len(p) - 1) = p

Whitespace == {" ", "\t", "\n"}

RECURSIVE lstrip(_)
lstrip(s) ==
    IF Len(s) > 0 /\ SubSeq(s, 1, 1) \in Whitespace
    THEN lstrip(SubSeq(s, 2, Len(s)))
    ELSE s

RECURSIVE rstrip(_)
rstrip(s) ==
    IF Len(s) > 0 /\ SubSeq(s, Len(s), Len(s)) \in Whitespace
    THEN rstrip(SubSeq(s, 1, Len(s) - 1))
    ELSE s

strip(s) == rstrip(lstrip(s))

RECURSIVE join(_, _)
join(sep, parts) ==
    IF Len(parts) = 0 THEN ""
    ELSE IF Len(parts) = 1 THEN parts[1]
    ELSE parts[1] \o sep \o join(sep, Tail(parts))

\* str(int)
IntStr(n) == ToString(n)

\* str(float) of a non-negative float with at most two decimals, given in
\* hundredths: 70 -> "0.7", 95 -> "0.95", 110 -> "1.1", 100 -> "1.0"
FloatStr(h) ==
    LET ip == h \div 100
        fp == h % 100
    IN  IntStr(ip) \o "." \o
        (IF fp % 10 = 0 THEN IntStr(fp \div 10)
         ELSE IF fp < 10 THEN "0" \o IntStr(fp)
         ELSE IntStr(fp))

\* Python truthiness of an Optional[int] and of an Optional[str]
TruthyInt(o) == o # None /\ o[1] # 0

TruthyStr(o) == o # None /\ o[1] # ""

TruthyList(o) == o # None /\ o[1] # <<>>

(***************************************************************************)
(* build_model_command                                                     *)
(***************************************************************************)
build_model_command_always_threads(config) ==
    LET p1 == << "/app/llama-server",
                 "-m " \o config.file_path,
                 "-ngl " \o IntStr(config.ngl),
                 "-c " \o IntStr(config.ctx),
                 "-b " \o IntStr(config.batch) >>
        p2 == IF config.threads # None
              THEN Append(p1, "-t " \o IntStr(config.threads[1])) ELSE p1
        p3 == p2 \o << "-ub " \o IntStr(config.ubatch),
                       "--temp " \o FloatStr(config.temp),
                       "--top-p " \o FloatStr(config.top_p),
                       "--top-k " \o IntStr(config.top_k),
                       "--repeat-penalty " \o FloatStr(config.repeat_penalty) >>
        p4 == IF config.mlock THEN Append(p3, "--mlock") ELSE p3
        p5 == IF TruthyStr(config.numa) THEN Append(p4, config.numa[1]) ELSE p4
        p6 == IF config.flash_attn THEN Append(p5, "--flash-attn") ELSE p5
        p7 == IF TruthyStr(config.advanced)
              THEN Append(p6, strip(config.advanced[1])) ELSE p6
    IN  join(" ", p7 \o << "--port ${PORT}", "--host 0.0.0.0" >>)

build_model_command(config) ==
    LET p1 == << "/app/llama-server",
                 "-m " \o config.file_path,
                 "-ngl " \o IntStr(config.ngl),
                 "-c " \o IntStr(config.ctx),
                 "-b " \o IntStr(config.batch) >>
        p2 == IF TruthyInt(config.threads)
              THEN Append(p1, "-t " \o IntStr(config.threads[1])) ELSE p1
        p3 == p2 \o << "-ub " \o IntStr(config.ubatch),
                       "--temp " \o FloatStr(config.temp),
                       "--top-p " \o FloatStr(config.top_p),
                       "--top-k " \o IntStr(config.top_k),
                       "--repeat-penalty " \o FloatStr(config.repeat_penalty) >>
        p4 == IF config.mlock THEN Append(p3, "--mlock") ELSE p3
        p5 == IF TruthyStr(config.numa) THEN Append(p4, config.numa[1]) ELSE p4
        p6 == IF config.flash_attn THEN Append(p5, "--flash-attn") ELSE p5
        p7 == IF TruthyStr(config.advanced)
              THEN Append(p6, strip(config.advanced[1])) ELSE p6
    IN  join(" ", p7 \o << "--port ${PORT}", "--host 0.0.0.0" >>)

(***************************************************************************)
(* Python dicts keep insertion order: a dict is a sequence of              *)
(* [key, value] records with distinct keys.                                *)
(***************************************************************************)
DictKeys(d) == [i \in 1..Len(d) |-> d[i].key]

DictHas_always(d, k) == TRUE

DictHas(d, k) == \E i \in 1..Len(d) : d[i].key = k

DictGet(d, k) == d[CHOOSE i \in 1..Len(d) : d[i].key = k].value

DictSet_replace_all(d, k, v) == << [key |-> k, value |-> v] >>

\* d[k] = v: an existing key keeps its position, a new key goes last
DictSet(d, k, v) ==
    IF DictHas(d, k)
    THEN [i \in 1..Len(d) |-> IF d[i].key = k THEN [key |-> k, value |-> v] ELSE d[i]]
    ELSE Append(d, [key |-> k, value |-> v])

\* del d[k]
DictDel(d, k) == SelectSeq(d, LAMBDA e : e.key # k)

(***************************************************************************)
(* yaml.dump(config, f, default_flow_style=False, sort_keys=False) of a    *)
(* document {"models": {name: {"cmd": str, "aliases": [str, ...]}}}: the   *)
(* lines of the block-style text, keys in insertion order.                 *)
(***************************************************************************)
RECURSIVE yaml_dump_list(_)
yaml_dump_list(items) ==
    IF items = <<>> THEN <<>>
    ELSE << "    - " \o Head(items) >> \o yaml_dump_list(Tail(items))

yaml_dump_entry(e) ==
    << "    cmd: " \o e.cmd >> \o
    (IF "aliases" \notin DOMAIN e THEN <<>>
     ELSE IF e.aliases = <<>> THEN << "    aliases: []" >>
     ELSE << "    aliases:" >> \o yaml_dump_list(e.aliases))

RECURSIVE yaml_dump_models(_)
yaml_dump_models(d) ==
    IF d = <<>> THEN <<>>
    ELSE << "  " \o Head(d).key \o ":" >> \o yaml_dump_entry(Head(d).value)
         \o yaml_dump_models(Tail(d))

yaml_dump(config) ==
    IF config.models = <<>> THEN << "models: {}" >>
    ELSE << "models:" >> \o yaml_dump_models(config.models)

(***************************************************************************)
(* yaml.safe_load of such a text.  The result is [ok, value]: ok is FALSE  *)
(* when the text does not parse (safe_load raises), value is None for an   *)
(* empty text (safe_load returns None).                                    *)
(***************************************************************************)
IsItemLine(l) == startswith(l, "    - ")

IsKeyLine(l) == startswith(l, "  ") /\ ~startswith(l, "   ") /\ endswith(l, ":")

IsCmdLine(l) == startswith(l, "    cmd: ")

\* the index after the run of "- item" lines that starts at i
RECURSIVE yaml_items_end(_, _)
yaml_items_end(lines, i) ==
    IF i <= Len(lines) /\ IsItemLine(lines[i]) THEN yaml_items_end(lines, i + 1) ELSE i

yaml_load_list(lines, i, j) == [k \in 1..(j - i) |-> SubSeq(lines[i + k - 1], 7, Len(lines[i + k - 1]))]

\* the entries from line i on, or <<"error">> in front of what was read
RECURSIVE yaml_load_models(_, _)
yaml_load_models(lines, i) ==
    IF i > Len(lines) THEN [ok |-> TRUE, value |-> <<>>]
    ELSE IF ~IsKeyLine(lines[i]) \/ i + 1 > Len(lines) \/ ~IsCmdLine(lines[i + 1])
    THEN [ok |-> FALSE, value |-> <<>>]
    ELSE
      LET key == SubSeq(lines[i], 3, Len(lines[i]) - 1)
          cmd == SubSeq(lines[i + 1], 10, Len(lines[i + 1]))
          hasEmpty == i + 2 <= Len(lines) /\ lines[i + 2] = "    aliases: []"
          hasList == i + 2 <= Len(lines) /\ lines[i + 2] = "    aliases:"
          j == IF hasList THEN yaml_items_end(lines, i + 3) ELSE i + 3
          entry == IF hasEmpty THEN [cmd |-> cmd, aliases |-> <<>>]
                   ELSE IF hasList THEN [cmd |-> cmd, aliases |-> yaml_load_list(lines, i + 3, j)]
                   ELSE [cmd |-> cmd]
          nxt == IF hasEmpty \/ hasList THEN j ELSE i + 2
          rest == yaml_load_models(lines, nxt)
      IN  IF hasList /\ j = i + 3 THEN [ok |-> FALSE, value |-> <<>>]
          ELSE [ok |-> rest.ok, value |-> << [key |-> key, value |-> entry] >> \o rest.value]

yaml_safe_load(lines) ==
    IF lines = <<>> THEN [ok |-> TRUE, value |-> None]
    ELSE IF lines = << "models: {}" >> THEN [ok |-> TRUE, value |-> Some([models |-> <<>>])]
    ELSE IF lines[1] = "models:" /\ Len(lines) > 1
    THEN LET r == yaml_load_models(lines, 2)
         IN  [ok |-> r.ok, value |-> Some([models |-> r.value])]
    ELSE [ok |-> FALSE, value |-> None]

(***************************************************************************)
(* The file system: config_file is None when settings.config_path does not *)
(* exist and Some(lines) when it does.                                     *)
(***************************************************************************)
exists(f) == f # None

load_config_empty(file) == [models |-> <<>>]

\* load_config: the parsed document; {"models": {}} when the file is absent,
\* empty, or does not parse
load_config(file) ==
    IF exists(file)
    THEN LET r == yaml_safe_load(file[1])
         IN  IF r.ok /\ r.value # None THEN r.value[1] ELSE [models |-> <<>>]
    ELSE [models |-> <<>>]

(***************************************************************************)
(* datetime.now().strftime: the clock counts the seconds of one day.       *)
(***************************************************************************)
Pad2(n) == IF n < 10 THEN "0" \o IntStr(n) ELSE IntStr(n)

\* strftime('%Y%m%d-%H%M%S')
strftime_file(t) ==
    "20250101-" \o Pad2(t \div 3600) \o Pad2((t \div 60) % 60) \o Pad2(t % 60)

\* strftime('%H:%M:%S')
strftime_log(t) ==
    Pad2(t \div 3600) \o ":" \o Pad2((t \div 60) % 60) \o ":" \o Pad2(t % 60)

(***************************************************************************)
(* log_activity                                                            *)
(***************************************************************************)
MaxLogEntries == 1000

log_entry(t, message) == strftime_log(t) \o " " \o message

log_activity_keep_oldest(logs, t, message) ==
    LET appended == Append(logs, log_entry(t, message))
    IN  IF Len(appended) > MaxLogEntries
        THEN SubSeq(appended, 1, MaxLogEntries)
        ELSE appended

log_activity(logs, t, message) ==
    LET appended == Append(logs, log_entry(t, message))
    IN  IF Len(appended) > MaxLogEntries
        THEN SubSeq(appended, Len(appended) - MaxLogEntries + 1, Len(appended))
        ELSE appended

\* the log_activity calls of one handler, in order
RECURSIVE log_all(_, _, _)
log_all(logs, t, messages) ==
    IF messages = <<>> THEN logs
    ELSE log_all(log_activity(logs, t, Head(messages)), t, Tail(messages))

entries_of(t, messages) == [i \in 1..Len(messages) |-> log_entry(t, messages[i])]

(***************************************************************************)
(* save_config.  io is what the file system does to this call: "ok";       *)
(* "copy_fail", shutil.copy2 raises before it creates the backup;          *)
(* "copy_partial", it raises after it created the backup file, leaving it  *)
(* empty; "open_fail", open(config_path, 'w') raises; "write_fail", the    *)
(* write raises after open truncated the file.  The result is the file     *)
(* system afterwards, the messages logged, and whether HTTPException(500)  *)
(* was raised.                                                             *)
(***************************************************************************)
IOOutcomes == {"ok", "copy_fail", "copy_partial", "open_fail", "write_fail"}

CopyFailures == {"copy_fail", "copy_partial"}

\* the outcomes that can happen to a save of the file as it is
IOFor(file) == IF exists(file) THEN IOOutcomes ELSE IOOutcomes \ CopyFailures

put(dir, name, content) ==
    [n \in DOMAIN dir \cup {name} |-> IF n = name THEN content ELSE dir[n]]

backup_name_of(t) == "config-backup-" \o strftime_file(t) \o ".yaml"

\* the file opened with 'a' instead of 'w'
save_config_append(config, file, bdir, t, io) ==
    LET backup_name == backup_name_of(t)
        copyRaised == exists(file) /\ io \in CopyFailures
        bdir1 == IF ~exists(file) \/ io = "copy_fail" THEN bdir
                 ELSE IF io = "copy_partial" THEN put(bdir, backup_name, <<>>)
                 ELSE put(bdir, backup_name, file[1])
        raised == copyRaised \/ io \in {"open_fail", "write_fail"}
        old == IF exists(file) THEN file[1] ELSE <<>>
        file1 == IF copyRaised \/ io = "open_fail" THEN file
                 ELSE IF io = "write_fail" THEN Some(old)
                 ELSE Some(old \o yaml_dump(config))
        messages == (IF exists(file) /\ ~copyRaised
                     THEN << "Config backed up to " \o backup_name >> ELSE <<>>)
                    \o (IF raised THEN <<>> ELSE << "Configuration saved successfully" >>)
    IN  [file |-> file1, backups |-> bdir1, messages |-> messages, raised |-> raised]

\* the live file written before the backup copy is taken
save_config_write_first(config, file, bdir, t, io) ==
    LET backup_name == backup_name_of(t)
        copyRaised == exists(file) /\ io \in CopyFailures
        raised == copyRaised \/ io \in {"open_fail", "write_fail"}
        file1 == IF io = "open_fail" THEN file
                 ELSE IF io = "write_fail" THEN Some(<<>>)
                 ELSE Some(yaml_dump(config))
        bdir1 == IF ~exists(file) \/ io \in {"copy_fail", "open_fail", "write_fail"} THEN bdir
                 ELSE IF io = "copy_partial" THEN put(bdir, backup_name, <<>>)
                 ELSE put(bdir, backup_name, file1[1])
        messages == (IF exists(file) /\ ~raised
                     THEN << "Config backed up to " \o backup_name >> ELSE <<>>)
                    \o (IF raised THEN <<>> ELSE << "Configuration saved successfully" >>)
    IN  [file |-> file1, backups |-> bdir1, messages |-> messages, raised |-> raised]

save_config(config, file, bdir, t, io) ==
    LET backup_name == backup_name_of(t)
        copyRaised == exists(file) /\ io \in CopyFailures
        bdir1 == IF ~exists(file) \/ io = "copy_fail" THEN bdir
                 ELSE IF io = "copy_partial" THEN put(bdir, backup_name, <<>>)
                 ELSE put(bdir, backup_name, file[1])
        raised == copyRaised \/ io \in {"open_fail", "write_fail"}
        file1 == IF copyRaised \/ io = "open_fail" THEN file
                 ELSE IF io = "write_fail" THEN Some(<<>>)
                 ELSE Some(yaml_dump(config))
        messages == (IF exists(file) /\ ~copyRaised
                     THEN << "Config backed up to " \o backup_name >> ELSE <<>>)
                    \o (IF raised THEN <<>> ELSE << "Configuration saved successfully" >>)
    IN  [file |-> file1, backups |-> bdir1, messages |-> messages, raised |-> raised]

(***************************************************************************)
(* Bounds of the model and the inputs drawn.                               *)
(***************************************************************************)
MaxClock == 1

MaxCalls == 2

\* ModelConfig with the defaults of the pydantic class
DefaultModel ==
    [name |-> "a", file_path |-> "/models/a.gguf", ngl |-> 99, ctx |-> 4096,
     batch |-> 2048, threads |-> None, temp |-> 70, top_p |-> 95, top_k |-> 40,
     repeat_penalty |-> 110, ubatch |-> 512, mlock |-> FALSE, numa |-> None,
     flash_attn |-> FALSE, aliases |-> None, advanced |-> None]

Names == {"a", "b"}

AliasInputs == {None, Some(<<>>), Some(<<"x", "y">>)}

\* the ModelConfig bodies posted to /api/config/models
ConfigModels ==
    {[DefaultModel EXCEPT !.name = n, !.file_path = "/models/" \o n \o ".gguf",
                          !.aliases = al] : n \in Names, al \in AliasInputs}

\* the LlamaSwapConfig bodies posted to /api/config/apply
ApplyBodies ==
    { [models |-> <<>>],
      [models |-> << [key |-> "b", value |-> [cmd |-> "/app/llama-server -m /models/b.gguf"]],
                     [key |-> "a", value |-> [cmd |-> "/app/llama-server -m /models/a.gguf",
                                              aliases |-> <<>>]] >>] }

\* a configuration file left by an earlier run of the server
EarlierConfigs ==
    { yaml_dump([models |-> << [key |-> "b",
        value |-> [cmd |-> build_model_command([DefaultModel EXCEPT !.name = "b",
                                                !.file_path = "/models/b.gguf"]),
                   aliases |-> <<"z">>]] >>]) }

(***************************************************************************)
(* The state when the server starts serving: the module-level globals      *)
(* (activity_logs = [], system_stats) and whatever an earlier run left on  *)
(* disk.                                                                   *)
(***************************************************************************)
InitGlobals ==
    /\ now = 0
    /\ activity_logs = <<>>
    /\ logHist = <<>>
    /\ system_stats = [total_requests |-> 0, response_times |-> <<>>]
    /\ okTimes = <<>>
    /\ downloads = <<>>
    /\ tests = <<>>
    /\ uploads = <<>>
    /\ hist = <<>>
    /\ last = [op |-> "start"]
    /\ calls = 0

InitSynthIdle ==
    /\ model_in = DefaultModel
    /\ cmd_out = None

Init ==
    /\ InitGlobals
    /\ InitSynthIdle
    /\ config_file \in {None} \cup {Some(f) : f \in EarlierConfigs}
    /\ backups = <<>>
    /\ models_dir = <<>>

LogAppend(messages) ==
    /\ activity_logs' = log_all(activity_logs, now, messages)
    /\ logHist' = logHist \o entries_of(now, messages)

(***************************************************************************)
(* The configuration endpoints.  None of them awaits: each is one step.    *)
(***************************************************************************)
\* GET /api/config/current
get_current_config ==
    /\ calls < MaxCalls
    /\ LogAppend(<< "Current configuration requested" >>)
    /\ last' = [op |-> "current", status |-> 200,
                body |-> load_config(config_file).models]
    /\ calls' = calls + 1
    /\ UNCHANGED <<now, config_file, backups, system_stats, okTimes, models_dir,
                   downloads, tests, hist, model_in, cmd_out, uploads>>

\* POST /api/config/models
add_model_config(model, io) ==
    LET config == load_config(config_file)
        model_cmd == build_model_command(model)
        model_config == IF TruthyList(model.aliases)
                        THEN [cmd |-> model_cmd, aliases |-> model.aliases[1]]
                        ELSE [cmd |-> model_cmd]
        config1 == [config EXCEPT !.models = DictSet(@, model.name, model_config)]
        s == save_config(config1, config_file, backups, now, io)
    IN  /\ calls < MaxCalls
        /\ config_file' = s.file
        /\ backups' = s.backups
        /\ LogAppend(s.messages \o
                     (IF s.raised THEN <<>>
                      ELSE << "Added model configuration: " \o model.name >>))
        /\ hist' = IF s.raised THEN hist
                   ELSE Append(hist, [op |-> "add", name |-> model.name, at |-> calls + 1,
                                      loaded |-> config, written |-> config1])
        /\ last' = [op |-> "add", model |-> model, io |-> io,
                    status |-> IF s.raised THEN 500 ELSE 200]
        /\ calls' = calls + 1
        /\ UNCHANGED <<now, system_stats, okTimes, models_dir, downloads, tests,
                       model_in, cmd_out, uploads>>

\* DELETE /api/config/models/{model_name}
remove_model_config(model_name, io) ==
    LET config == load_config(config_file)
        config1 == [config EXCEPT !.models = DictDel(@, model_name)]
        s == save_config(config1, config_file, backups, now, io)
    IN  IF ~DictHas(config.models, model_name)
        THEN /\ last' = [op |-> "remove", name |-> model_name, io |-> "ok", status |-> 404]
             /\ UNCHANGED <<now, config_file, backups, activity_logs, logHist,
                            system_stats, okTimes, models_dir, downloads, tests,
                            hist, model_in, cmd_out, calls, uploads>>
        ELSE /\ calls < MaxCalls
             /\ config_file' = s.file
             /\ backups' = s.backups
             /\ LogAppend(s.messages \o
                          (IF s.raised THEN <<>>
                           ELSE << "Removed model configuration: " \o model_name >>))
             /\ hist' = IF s.raised THEN hist
                        ELSE Append(hist, [op |-> "remove", name |-> model_name, at |-> calls + 1,
                                           loaded |-> config, written |-> config1])
             /\ last' = [op |-> "remove", name |-> model_name, io |-> io,
                         status |-> IF s.raised THEN 500 ELSE 200]
             /\ calls' = calls + 1
             /\ UNCHANGED <<now, system_stats, okTimes, models_dir, downloads,
                            tests, model_in, cmd_out, uploads>>

\* POST /api/config/apply
apply_config(body, io) ==
    LET s == save_config([models |-> body.models], config_file, backups, now, io)
    IN  /\ calls < MaxCalls
        /\ config_file' = s.file
        /\ backups' = s.backups
        /\ LogAppend(s.messages \o
                     (IF s.raised THEN <<>> ELSE << "Configuration applied to file" >>))
        /\ last' = [op |-> "apply", body |-> body, io |-> io,
                    status |-> IF s.raised THEN 500 ELSE 200]
        /\ calls' = calls + 1
        /\ UNCHANGED <<now, system_stats, okTimes, models_dir, downloads, tests,
                       hist, model_in, cmd_out, uploads>>

\* GET /api/config/backup: the HTTPException(404) is raised inside the try
\* whose `except Exception` turns every exception into HTTPException(500)
backup_config ==
    /\ last' = IF ~exists(config_file)
               THEN [op |-> "backup", status |-> 500]
               ELSE [op |-> "backup", status |-> 200, body |-> config_file[1]]
    /\ UNCHANGED <<now, config_file, backups, activity_logs, logHist, system_stats,
                   okTimes, models_dir, downloads, tests, hist, model_in, cmd_out,
                   calls, uploads>>

\* a second of wall-clock time passes
Tick ==
    /\ now < MaxClock
    /\ now' = now + 1
    /\ last' = [op |-> "tick"]
    /\ UNCHANGED <<config_file, backups, activity_logs, logHist, system_stats,
                   okTimes, models_dir, downloads, tests, hist, model_in, cmd_out,
                   calls, uploads>>

AddModel == \E model \in ConfigModels : \E io \in IOFor(config_file) : add_model_config(model, io)

RemoveModel == \E name \in Names : \E io \in IOFor(config_file) : remove_model_config(name, io)

ApplyConfig == \E body \in ApplyBodies : \E io \in IOFor(config_file) : apply_config(body, io)

Next ==
    \/ AddModel
    \/ RemoveModel
    \/ ApplyConfig
    \/ get_current_config
    \/ backup_config
    \/ Tick

Spec == Init /\ [][Next]_vars

\* time passes whatever the clients do; no client is obliged to send a request
FairSpec == Spec /\ WF_vars(Tick)

(***************************************************************************)
(* Properties of the configuration endpoints.                              *)
(***************************************************************************)
Mutations == {"add", "remove", "apply"}

NumBackups(bdir) == Cardinality(DOMAIN bdir)

\* the aliases of a LaunchEntry, an entry without the key having none
EntryAliases(e) == IF "aliases" \in DOMAIN e THEN e.aliases ELSE <<>>

HasKey(d, k) == \E i \in 1..Len(d) : d[i].key = k

\* C1: exportBackup (GET /api/config/backup) called while no configuration
\* file exists answers 404.
C1_BackupAbsentIs404 ==
    (last.op = "backup" /\ ~exists(config_file)) => last.status = 404

\* C2: every save that succeeds adds exactly one backup file when a
\* configuration file existed when it started, and none when no file existed,
\* also when two saves fall into the same second.
C2_SaveAddsOneBackup ==
    [][(last'.op \in Mutations /\ last'.status = 200)
        => IF exists(config_file)
           THEN NumBackups(backups') = NumBackups(backups) + 1
           ELSE backups' = backups]_vars

\* C3: remove(name) with a name that is no key of the current document answers
\* 404 and changes nothing: the file, the backups and the log stay as they
\* were (save logs on every path that reaches the file system).
C3_RemoveAbsentChangesNothing ==
    [][(last'.op = "remove" /\ ~HasKey(load_config(config_file).models, last'.name))
        => /\ last'.status = 404
           /\ config_file' = config_file
           /\ backups' = backups
           /\ activity_logs' = activity_logs
           /\ hist' = hist]_vars

C3_Witness ==
    /\ last.op = "remove"
    /\ last.status = 404
    /\ Len(load_config(config_file).models) > 0

C5_AddTwiceIsAddOnce ==
    [][(/\ last.op = "add" /\ last.status = 200
        /\ last'.op = "add" /\ last'.status = 200
        /\ last'.model = last.model)
        => /\ config_file' = config_file
           /\ load_config(config_file') = load_config(config_file)]_vars

C5_Witness ==
    /\ last.op = "add"
    /\ last.status = 200
    /\ Len(hist) = 2
    /\ hist[1].op = "add" /\ hist[2].op = "add"
    /\ hist[1].name = last.model.name
    /\ hist[2].loaded = hist[2].written
    /\ Len(hist[2].written.models) = 2
    /\ NumBackups(backups) > 0

\* Two successful add/remove calls, the second directly after the first, that
\* both worked from the same prior document, the first having changed it: the
\* second wrote without the first one's change.
C9_LostUpdate ==
    \E i \in 1..(Len(hist) - 1) :
        /\ hist[i + 1].at = hist[i].at + 1
        /\ hist[i + 1].loaded = hist[i].loaded
        /\ hist[i].written # hist[i].loaded
        /\ hist[i + 1].written # hist[i].written
        /\ load_config(config_file) = hist[i + 1].written

\* two successful add/remove calls, one directly after the other
C9_TwoWriters ==
    \E i \in 1..(Len(hist) - 1) :
        /\ hist[i + 1].at = hist[i].at + 1
        /\ hist[i].written # hist[i].loaded

C11_SaveOverExisting ==
    /\ last'.op \in Mutations
    /\ last'.status # 404
    /\ exists(config_file)

\* C11: a save that finds a configuration file takes the backup before it
\* touches the live file: when its copy succeeds, the backup it names holds
\* the content the live file had before the save, and the live file is never
\* changed without that backup in place; when its copy fails, the live file
\* is left as it was and the caller gets 500.
C11_BackupBeforeWrite ==
    [][C11_SaveOverExisting
        => /\ last'.io \notin CopyFailures
                => /\ backup_name_of(now) \in DOMAIN backups'
                   /\ backups'[backup_name_of(now)] = config_file[1]
           /\ config_file' # config_file
                => /\ backup_name_of(now) \in DOMAIN backups'
                   /\ backups'[backup_name_of(now)] = config_file[1]
           /\ last'.io \in CopyFailures
                => /\ config_file' = config_file
                   /\ last'.status = 500]_vars

\* a save whose backup copy failed, after an earlier save that took its
\* backup and changed the file
C11_Witness ==
    /\ last.op \in Mutations
    /\ last.io \in CopyFailures
    /\ last.status = 500
    /\ exists(config_file)
    /\ \E n \in DOMAIN backups : backups[n] # <<>> /\ backups[n] # config_file[1]

(***************************************************************************)
(* The command synthesizer on its own: build_model_command applied to a    *)
(* ModelConfig drawn from SynthInputs.                                     *)
(***************************************************************************)
SynthInputs ==
    [name : {"llama3"},
     file_path : {"/models/llama3.gguf", "m.gguf"},
     ngl : {99, 0, -1},
     ctx : {4096},
     batch : {2048},
     threads : {None, Some(0), Some(8)},
     temp : {70, 100, 5},
     top_p : {95},
     top_k : {40},
     repeat_penalty : {110},
     ubatch : {512},
     mlock : BOOLEAN,
     numa : {None, Some(""), Some("--numa distribute")},
     flash_attn : BOOLEAN,
     aliases : {None},
     advanced : {None, Some(""), Some("  "), Some(" --jinja -np 2 \n")}]

InitDiskEmpty ==
    /\ config_file = None
    /\ backups = <<>>
    /\ models_dir = <<>>

SynthInit ==
    /\ InitGlobals
    /\ InitDiskEmpty
    /\ model_in \in SynthInputs
    /\ cmd_out = None

Synthesize ==
    /\ cmd_out = None
    /\ cmd_out' = Some(build_model_command(model_in))
    /\ last' = [op |-> "build_model_command"]
    /\ UNCHANGED <<now, config_file, backups, activity_logs, logHist, system_stats,
                   okTimes, models_dir, downloads, tests, hist, model_in, calls,
                   uploads>>

SynthNext == Synthesize

SynthSpec == SynthInit /\ [][SynthNext]_vars

PortHost == "--port ${PORT} --host 0.0.0.0"

C7_Segment(present, text) == IF present THEN " " \o text ELSE ""

\* a string field is present when it is given and not the empty string
C7_Present(o) == o # None /\ o[1] # ""

\* the command of C7: the segments in the claimed order, single spaces
\* between them, '-t' as withThreads says
C7_Command(m, withThreads) ==
    "/app/llama-server"
    \o " -m " \o m.file_path
    \o " -ngl " \o IntStr(m.ngl)
    \o " -c " \o IntStr(m.ctx)
    \o " -b " \o IntStr(m.batch)
    \o (IF withThreads THEN " -t " \o IntStr(m.threads[1]) ELSE "")
    \o " -ub " \o IntStr(m.ubatch)
    \o " --temp " \o FloatStr(m.temp)
    \o " --top-p " \o FloatStr(m.top_p)
    \o " --top-k " \o IntStr(m.top_k)
    \o " --repeat-penalty " \o FloatStr(m.repeat_penalty)
    \o C7_Segment(m.mlock, "--mlock")
    \o (IF C7_Present(m.numa) THEN " " \o m.numa[1] ELSE "")
    \o C7_Segment(m.flash_attn, "--flash-attn")
    \o (IF C7_Present(m.advanced) THEN " " \o strip(m.advanced[1]) ELSE "")
    \o " " \o PortHost

\* C7 as claimed: the command is the ordered segments, with '-t <threads>'
\* exactly when a thread count is supplied, numaPolicy and the trimmed
\* advancedArgs exactly when present; it contains the file path and ends with
\* the port/host segment.
C7_CommandAsClaimed ==
    cmd_out # None
      => /\ cmd_out[1] = C7_Command(model_in, model_in.threads # None)
         /\ contains(cmd_out[1], model_in.file_path)
         /\ endswith(cmd_out[1], PortHost)

\* C7, amended: as claimed, but '-t <threads>' is emitted exactly when a
\* thread count is supplied and is not 0.
C7_CommandSegments ==
    cmd_out # None
      => /\ cmd_out[1] =
              C7_Command(model_in, model_in.threads # None /\ model_in.threads[1] # 0)
         /\ contains(cmd_out[1], "-m " \o model_in.file_path)
         /\ endswith(cmd_out[1], PortHost)

C7_Witness ==
    /\ cmd_out # None
    /\ model_in.threads = Some(8)
    /\ model_in.mlock
    /\ model_in.flash_attn
    /\ model_in.numa = Some("--numa distribute")
    /\ model_in.advanced = Some(" --jinja -np 2 \n")
    /\ contains(cmd_out[1], "-t 8 -ub 512")
    /\ endswith(cmd_out[1], "--mlock --numa distribute --flash-attn --jinja -np 2 " \o PortHost)

(***************************************************************************)
(* The activity log close to its limit.  The server has answered           *)
(* GET /api/config/current once a second for n seconds, n being 0 or       *)
(* within LogSlack of MaxLogEntries; then the handlers below run.          *)
(***************************************************************************)
LogSlack == 3

LogFill(n) == [i \in 1..n |-> log_entry(i, "Current configuration requested")]

LogModels == {DefaultModel, [DefaultModel EXCEPT !.name = "b", !.aliases = Some(<<"x">>)]}

LogInit ==
    /\ \E n \in {0} \cup ((MaxLogEntries - LogSlack)..MaxLogEntries) :
          /\ now = n
          /\ activity_logs = LogFill(n)
          /\ logHist = LogFill(n)
    /\ system_stats = [total_requests |-> 0, response_times |-> <<>>]
    /\ okTimes = <<>>
    /\ downloads = <<>>
    /\ tests = <<>>
    /\ uploads = <<>>
    /\ hist = <<>>
    /\ last = [op |-> "start"]
    /\ calls = 0
    /\ InitSynthIdle
    /\ InitDiskEmpty

\* DELETE /api/logs
clear_logs ==
    /\ calls < MaxCalls
    /\ activity_logs' = log_activity(<<>>, now, "Logs cleared by user")
    /\ logHist' = << log_entry(now, "Logs cleared by user") >>
    /\ last' = [op |-> "clear_logs", status |-> 200]
    /\ calls' = calls + 1
    /\ UNCHANGED <<now, config_file, backups, system_stats, okTimes, models_dir,
                   downloads, tests, hist, model_in, cmd_out, uploads>>

LogNext ==
    \/ \E model \in LogModels : \E io \in {"ok", "write_fail"} : add_model_config(model, io)
    \/ \E name \in Names : remove_model_config(name, "ok")
    \/ get_current_config
    \/ clear_logs

LogSpec == LogInit /\ [][LogNext]_vars

C6_Newest(s, n) == IF Len(s) > n THEN SubSeq(s, Len(s) - n + 1, Len(s)) ELSE s

\* C6: the log never holds more than 1000 entries; it is the newest 1000 of
\* the entries appended since the last clear, in order (the oldest are the
\* ones dropped); right after clear() it holds exactly the 'cleared' entry.
C6_LogBounded ==
    /\ Len(activity_logs) <= 1000
    /\ activity_logs = C6_Newest(logHist, 1000)
    /\ last.op = "clear_logs"
         => activity_logs = << strftime_log(now) \o " Logs cleared by user" >>

\* a save that appended its entries to a full log
C6_Witness ==
    /\ last.op = "add"
    /\ last.status = 200
    /\ Len(logHist) > 1001
    /\ Len(activity_logs) = 1000
    /\ activity_logs[1000] = strftime_log(now) \o " Added model configuration: " \o last.model.name

(***************************************************************************)
(* POST /api/system/test.  test_model awaits the swap service twice, so a  *)
(* call is three steps: up to the first await, from the answer of          *)
(* /v1/models up to the second await, and from the answer of               *)
(* /v1/chat/completions to the response.  Calls in flight interleave       *)
(* between their awaits.                                                    *)
(***************************************************************************)
MaxWindow == 100

WindowSlack == 2

\* what make_llama_swap_request("/v1/models") can give: a status other than
\* 200 raises HTTPException(status), a transport failure raises another
\* exception, and 200 gives the JSON body
ListAnswers == {"http_503", "transport_error", "no_models", "one_model"}

\* what make_llama_swap_request("/v1/chat/completions") can give; the bodies
\* of a 200 answer: a choice with a message, no "choices" key, and an empty
\* "choices" list
CompletionAnswers ==
    {"http_500", "transport_error", "choice", "no_choices_key", "empty_choices"}

WindowFill(n) == [i \in 1..n |-> 1000 * (i % 3)]

StatsInit ==
    /\ now = 0
    /\ activity_logs = <<>>
    /\ logHist = <<>>
    /\ \E n \in {0} \cup ((MaxWindow - WindowSlack)..MaxWindow) :
          /\ system_stats = [total_requests |-> n, response_times |-> WindowFill(n)]
          /\ okTimes = WindowFill(n)
    /\ downloads = <<>>
    /\ tests = <<>>
    /\ uploads = <<>>
    /\ hist = <<>>
    /\ last = [op |-> "start"]
    /\ calls = 0
    /\ InitSynthIdle
    /\ InitDiskEmpty

RemoveAt(seq, i) == SubSeq(seq, 1, i - 1) \o SubSeq(seq, i + 1, Len(seq))

\* the handler runs up to `await make_llama_swap_request("/v1/models")`
test_model_start ==
    /\ calls < MaxCalls
    /\ tests' = Append(tests, [pc |-> "models"])
    /\ last' = [op |-> "test_model_start"]
    /\ calls' = calls + 1
    /\ UNCHANGED <<now, config_file, backups, activity_logs, logHist, system_stats,
                   okTimes, models_dir, downloads, hist, model_in, cmd_out,
                   uploads>>

\* /v1/models has answered: the handler runs up to
\* `await make_llama_swap_request("/v1/chat/completions", ...)` or raises
test_model_listed(i, answer) ==
    /\ tests[i].pc = "models"
    /\ IF answer = "one_model"
       THEN /\ tests' = [tests EXCEPT ![i] = [pc |-> "completion", start_time |-> now]]
            /\ last' = [op |-> "test_model_listed"]
       ELSE /\ tests' = RemoveAt(tests, i)
            /\ last' = [op |-> "test_model",
                        status |-> IF answer = "http_503" THEN 503
                                   ELSE IF answer = "no_models" THEN 404 ELSE 500]
    /\ UNCHANGED <<now, config_file, backups, activity_logs, logHist, system_stats,
                   okTimes, models_dir, downloads, hist, model_in, cmd_out, calls,
                   uploads>>

\* system_stats["response_times"].append(...) and the cut to the last 100
record_response_time(times, response_time) ==
    LET appended == Append(times, response_time)
    IN  IF Len(appended) > MaxWindow
        THEN SubSeq(appended, Len(appended) - MaxWindow + 1, Len(appended))
        ELSE appended

\* /v1/chat/completions has answered: the rest of the handler
test_model_completed(i, answer) ==
    LET response_time == (now - tests[i].start_time) * 1000
        answered == answer \in {"choice", "no_choices_key", "empty_choices"}
        \* test_response.get("choices", [{}])[0] raises IndexError on []
        raised == answer = "empty_choices"
        reply == IF answer = "choice" THEN "Test successful" ELSE "No response"
    IN  /\ tests[i].pc = "completion"
        /\ tests' = RemoveAt(tests, i)
        /\ system_stats' =
              IF answered
              THEN [total_requests |-> system_stats.total_requests + 1,
                    response_times |->
                        record_response_time(system_stats.response_times, response_time)]
              ELSE system_stats
        /\ IF answered /\ ~raised
           THEN /\ LogAppend(<< "Model test successful - model-1: " \o reply
                                \o " (" \o IntStr(response_time) \o "ms)" >>)
                /\ okTimes' = Append(okTimes, response_time)
                /\ last' = [op |-> "test_model", status |-> 200,
                            response_time |-> response_time]
           ELSE /\ UNCHANGED <<activity_logs, logHist, okTimes>>
                /\ last' = [op |-> "test_model", status |-> 500]
        /\ UNCHANGED <<now, config_file, backups, models_dir, downloads, hist,
                       model_in, cmd_out, calls, uploads>>

TestListed == \E i \in 1..Len(tests) : \E answer \in ListAnswers : test_model_listed(i, answer)

TestCompleted ==
    \E i \in 1..Len(tests) : \E answer \in CompletionAnswers : test_model_completed(i, answer)

StatsNext ==
    \/ test_model_start
    \/ TestListed
    \/ TestCompleted
    \/ Tick

StatsSpec == StatsInit /\ [][StatsNext]_vars

\* C8: the window holds at most 100 samples and is, in order, the elapsed
\* times of the latest successful test calls; the request counter counts the
\* successful calls: a call that fails records no sample and does not count.
C8_WindowIsSuccessfulCalls ==
    /\ Len(system_stats.response_times) <= 100
    /\ system_stats.response_times = C6_Newest(okTimes, 100)
    /\ system_stats.total_requests = Len(okTimes)

(***************************************************************************)
(* POST /api/models/download.  download_model holds no await: one step.    *)
(* The task it adds, download_file_background, runs after the response     *)
(* and awaits the network and the file: it is one step up to               *)
(* `session.get(url)`, one from the answer to the opened file, and one per *)
(* chunk written.  The clock is read for the generated file name and the   *)
(* log stamps only; it stands at the hour the requests arrive.             *)
(***************************************************************************)

RECURSIVE after_last(_, _)
\* the part of s after its last c; all of s when c is not in it
after_last(s, c) ==
    IF ~contains(s, c) THEN s
    ELSE LET i == CHOOSE k \in 1..Len(s) : SubSeq(s, k, k) = c
         IN  after_last(SubSeq(s, i + 1, Len(s)), c)

\* urlparse(url).path of a URL without query and fragment
url_path(url) ==
    LET rest == IF contains(url, "://")
                THEN LET i == CHOOSE k \in 1..Len(url) :
                                 /\ SubSeq(url, k, k + 2) = "://"
                                 /\ \A j \in 1..(k - 1) : SubSeq(url, j, j + 2) # "://"
                     IN  SubSeq(url, i + 3, Len(url))
                ELSE url
    IN  IF contains(rest, "/")
        THEN LET i == CHOOSE k \in 1..Len(rest) :
                         /\ SubSeq(rest, k, k) = "/"
                         /\ \A j \in 1..(k - 1) : SubSeq(rest, j, j) # "/"
             IN  SubSeq(rest, i, Len(rest))
        ELSE ""

\* os.path.basename
basename(path) == after_last(path, "/")

\* the file name download_model settles on
target_filename(request, t) ==
    LET given == IF request.filename = None THEN "" ELSE request.filename[1]
        from_url == basename(url_path(request.url))
        f1 == IF given # "" THEN given
              ELSE IF from_url = "" \/ ~endswith(from_url, ".gguf")
              THEN "model-" \o strftime_file(t) \o ".gguf"
              ELSE from_url
    IN  IF ~endswith(f1, ".gguf") THEN f1 \o ".gguf" ELSE f1

path_exists_or_downloading(dir, filename) ==
    \/ filename \in DOMAIN dir
    \/ \E i \in 1..Len(downloads) :
          downloads[i].filename = filename /\ downloads[i].pc \notin {"done", "failed"}

\* file_path.exists()
path_exists(dir, filename) == filename \in DOMAIN dir

DownloadRequests ==
    { [url |-> "http://hub.example/org/m.gguf", filename |-> None],
      [url |-> "http://mirror.example/m.bin", filename |-> Some("m")],
      [url |-> "http://hub.example/files/", filename |-> None],
      [url |-> "http://hub.example/org/m.gguf", filename |-> Some("n.gguf")] }

\* what the server of the URL sends: a status and the chunks of the body
DownloadAnswers ==
    { [status |-> 404, body |-> <<>>],
      [status |-> 200, body |-> <<>>],
      [status |-> 200, body |-> << "GGUF" >>] }

\* the steps of requests and tasks that a run takes
MaxSteps == 6

Step ==
    /\ calls < MaxSteps
    /\ calls' = calls + 1

DownloadInit ==
    /\ InitGlobals
    /\ InitSynthIdle
    /\ InitDiskEmpty

download_model(request) ==
    LET filename == target_filename(request, now)
    IN  IF path_exists(models_dir, filename)
        THEN /\ last' = [op |-> "download_model", filename |-> filename, status |-> 409]
             /\ UNCHANGED <<now, config_file, backups, activity_logs, logHist,
                            system_stats, okTimes, models_dir, downloads, tests,
                            hist, model_in, cmd_out, calls, uploads>>
        ELSE /\ calls < MaxSteps
             /\ downloads' = Append(downloads, [filename |-> filename, pc |-> "queued",
                                                body |-> <<>>, downloaded |-> 0])
             /\ LogAppend(<< "Started download: " \o filename >>)
             /\ last' = [op |-> "download_model", filename |-> filename, status |-> 200]
             /\ calls' = calls + 1
             /\ UNCHANGED <<now, config_file, backups, system_stats, okTimes,
                            models_dir, tests, hist, model_in, cmd_out,
                            uploads>>

\* the except branch of download_file_background
download_failed(i, why) ==
    /\ downloads' = [downloads EXCEPT ![i].pc = "failed"]
    /\ LogAppend(<< "Download failed: " \o downloads[i].filename \o " - " \o why >>)
    /\ models_dir' = [f \in DOMAIN models_dir \ {downloads[i].filename} |-> models_dir[f]]
    /\ last' = [op |-> "download_file_background", task |-> i]
    /\ Step
    /\ UNCHANGED <<now, config_file, backups, system_stats, okTimes, tests, hist,
                   model_in, cmd_out, uploads>>

\* the task starts: up to `session.get(url)`
download_begin(i) ==
    /\ downloads[i].pc = "queued"
    /\ downloads' = [downloads EXCEPT ![i].pc = "connecting"]
    /\ LogAppend(<< "Downloading " \o downloads[i].filename \o "..." >>)
    /\ last' = [op |-> "download_file_background", task |-> i]
    /\ Step
    /\ UNCHANGED <<now, config_file, backups, system_stats, okTimes, models_dir,
                   tests, hist, model_in, cmd_out, uploads>>

\* the server has answered: a status other than 200 raises; on 200 the file
\* is opened with 'wb', which creates it or empties it
download_connected(i, status, body) ==
    /\ downloads[i].pc = "connecting"
    /\ IF status = 200
       THEN /\ downloads' = [downloads EXCEPT ![i].pc = "writing", ![i].body = body]
            /\ models_dir' = put(models_dir, downloads[i].filename,
                                 [opened_by |-> i, chunks |-> <<>>])
            /\ last' = [op |-> "download_file_background", task |-> i]
            /\ Step
            /\ UNCHANGED <<now, config_file, backups, activity_logs, logHist,
                           system_stats, okTimes, tests, hist, model_in, cmd_out,
                           uploads>>
       ELSE download_failed(i, "HTTP " \o IntStr(status))

\* a chunk arrives and is written through this task's open file; when a
\* cleanup has unlinked the path meanwhile, the write reaches no named file
download_chunk(i) ==
    /\ downloads[i].pc = "writing"
    /\ downloads[i].body # <<>>
    /\ downloads' = [downloads EXCEPT ![i].body = Tail(@),
                                      ![i].downloaded = @ + Len(Head(downloads[i].body))]
    /\ models_dir' =
          IF downloads[i].filename \in DOMAIN models_dir
          THEN [models_dir EXCEPT ![downloads[i].filename].chunks =
                                       Append(@, Head(downloads[i].body))]
          ELSE models_dir
    /\ last' = [op |-> "download_file_background", task |-> i]
    /\ Step
    /\ UNCHANGED <<now, config_file, backups, activity_logs, logHist, system_stats,
                   okTimes, tests, hist, model_in, cmd_out, uploads>>

\* the stream ends
download_completed(i) ==
    /\ downloads[i].pc = "writing"
    /\ downloads[i].body = <<>>
    /\ downloads' = [downloads EXCEPT ![i].pc = "done"]
    /\ LogAppend(<< "Download completed: " \o downloads[i].filename \o " ("
                    \o IntStr(downloads[i].downloaded) \o " bytes)" >>)
    /\ last' = [op |-> "download_file_background", task |-> i]
    /\ Step
    /\ UNCHANGED <<now, config_file, backups, system_stats, okTimes, models_dir,
                   tests, hist, model_in, cmd_out, uploads>>

\* the stream or the write breaks
download_broken(i) ==
    /\ downloads[i].pc = "writing"
    /\ download_failed(i, "Connection reset")

DownloadModel == \E request \in DownloadRequests : download_model(request)

DownloadBegin == \E i \in 1..Len(downloads) : download_begin(i)

DownloadConnected ==
    \E i \in 1..Len(downloads) : \E answer \in DownloadAnswers :
        download_connected(i, answer.status, answer.body)

DownloadChunk == \E i \in 1..Len(downloads) : download_chunk(i)

DownloadCompleted == \E i \in 1..Len(downloads) : download_completed(i)

DownloadBroken == \E i \in 1..Len(downloads) : download_broken(i)

DownloadNext ==
    \/ DownloadModel
    \/ DownloadBegin
    \/ DownloadConnected
    \/ DownloadChunk
    \/ DownloadCompleted
    \/ DownloadBroken

DownloadSpec == DownloadInit /\ [][DownloadNext]_vars

\* C10: a download request is answered 409 exactly when the target file
\* exists at the moment of the request; every other request is accepted and
\* adds a background task, whatever tasks are already under way.
C10_GuardIsExistenceCheck ==
    [][last'.op = "download_model"
        => /\ last'.status = 409 <=> last'.filename \in DOMAIN models_dir
           /\ last'.status # 409
                => /\ last'.status = 200
                   /\ Len(downloads') = Len(downloads) + 1
                   /\ downloads'[Len(downloads')].filename = last'.filename]_vars

\* two accepted downloads of the same target, both with the file open for
\* writing
C10_Witness ==
    \E i, j \in 1..Len(downloads) :
        /\ i # j
        /\ downloads[i].filename = downloads[j].filename
        /\ downloads[i].pc = "writing"
        /\ downloads[j].pc = "writing"

(***************************************************************************)
(* POST /api/models/upload.  upload_model runs its three checks without an *)
(* await, then awaits the opening of the target file, the reading of the   *)
(* request body and the write; the read touches nothing shared and is      *)
(* taken together with the write.  The handler has no cleanup: a file it   *)
(* opened stays when a later await raises.                                 *)
(***************************************************************************)
\* settings.max_file_size, 50000000000 bytes, counted in units of 10^9 bytes
max_file_size == 50

\* the UploadFile objects handed in: name, size in units of 10^9 bytes, body
UploadFiles ==
    { [filename |-> "m.gguf", size |-> 1, content |-> "GGUF"],
      [filename |-> "weights.bin", size |-> 1, content |-> "GGUF"],
      [filename |-> "m.gguf", size |-> max_file_size + 1, content |-> "GGUF"] }

\* a file opened by an upload carries 0 as its opener, download tasks count
\* from 1
ByUpload == 0

upload_rejected(file, status) ==
    /\ last' = [op |-> "upload_model", filename |-> file.filename, status |-> status]
    /\ UNCHANGED <<now, config_file, backups, activity_logs, logHist, system_stats,
                   okTimes, models_dir, downloads, tests, uploads, hist, model_in,
                   cmd_out, calls>>

\* the handler up to `aiofiles.open(file_path, 'wb')`
upload_model_start(file) ==
    IF ~endswith(file.filename, ".gguf") THEN upload_rejected(file, 400)
    ELSE IF file.size > max_file_size THEN upload_rejected(file, 413)
    ELSE IF path_exists(models_dir, file.filename) THEN upload_rejected(file, 409)
    ELSE /\ uploads' = Append(uploads, [filename |-> file.filename,
                                        content |-> file.content, pc |-> "opening"])
         /\ last' = [op |-> "upload_model_start", filename |-> file.filename]
         /\ Step
         /\ UNCHANGED <<now, config_file, backups, activity_logs, logHist,
                        system_stats, okTimes, models_dir, downloads, tests, hist,
                        model_in, cmd_out>>

\* the file is open: created, or emptied when it has appeared meanwhile
upload_opened(u) ==
    /\ uploads[u].pc = "opening"
    /\ uploads' = [uploads EXCEPT ![u].pc = "writing"]
    /\ models_dir' = put(models_dir, uploads[u].filename,
                         [opened_by |-> ByUpload, chunks |-> <<>>])
    /\ last' = [op |-> "upload_model_opened", filename |-> uploads[u].filename]
    /\ Step
    /\ UNCHANGED <<now, config_file, backups, activity_logs, logHist, system_stats,
                   okTimes, downloads, tests, hist, model_in, cmd_out>>

\* the body is read and written, the file closed, the upload logged and
\* answered; a path unlinked meanwhile stays gone
upload_written(u) ==
    /\ uploads[u].pc = "writing"
    /\ uploads' = RemoveAt(uploads, u)
    /\ models_dir' =
          IF uploads[u].filename \in DOMAIN models_dir
          THEN [models_dir EXCEPT ![uploads[u].filename].chunks =
                                       Append(@, uploads[u].content)]
          ELSE models_dir
    /\ LogAppend(<< "Model uploaded: " \o uploads[u].filename \o " ("
                    \o IntStr(Len(uploads[u].content)) \o " bytes)" >>)
    /\ last' = [op |-> "upload_model", filename |-> uploads[u].filename,
                status |-> 200]
    /\ Step
    /\ UNCHANGED <<now, config_file, backups, system_stats, okTimes, downloads,
                   tests, hist, model_in, cmd_out>>

\* the open, the read or the write raises: `except Exception` answers 500
upload_failed(u) ==
    /\ uploads' = RemoveAt(uploads, u)
    /\ last' = [op |-> "upload_model", filename |-> uploads[u].filename,
                status |-> 500]
    /\ Step
    /\ UNCHANGED <<now, config_file, backups, activity_logs, logHist, system_stats,
                   okTimes, models_dir, downloads, tests, hist, model_in, cmd_out>>

UploadStart == \E file \in UploadFiles : upload_model_start(file)

UploadOpened == \E u \in 1..Len(uploads) : upload_opened(u)

UploadWritten == \E u \in 1..Len(uploads) : upload_written(u)

UploadFailed == \E u \in 1..Len(uploads) : upload_failed(u)

TransferNext ==
    \/ DownloadModel
    \/ DownloadBegin
    \/ DownloadConnected
    \/ DownloadChunk
    \/ DownloadCompleted
    \/ DownloadBroken
    \/ UploadStart
    \/ UploadOpened
    \/ UploadWritten
    \/ UploadFailed

TransferSpec == DownloadInit /\ [][TransferNext]_vars

\* the download task whose step has just ended in failure
C12_Failing(i) ==
    /\ last'.op = "download_file_background"
    /\ last'.task = i
    /\ downloads'[i].pc = "failed"

\* C12: a failing download deletes no file but the one it opened itself, so
\* never one that an upload or another download has written; and a download
\* that completes leaves its file at the target path.
C12_CleanupOnlyOwnFile ==
    [][/\ \A i \in 1..Len(downloads) :
            C12_Failing(i)
              => \A f \in DOMAIN models_dir :
                    f \notin DOMAIN models_dir' => models_dir[f].opened_by = i
       /\ \A i \in 1..Len(downloads) :
            (last'.op = "download_file_background" /\ last'.task = i
               /\ downloads'[i].pc = "done")
              => downloads[i].filename \in DOMAIN models_dir']_vars

====
